---- MODULE Spec2Model ----
(***************************************************************************)
(* Model of @egomobile/redis: the RedisCache wrapper (get / set / flush)   *)
(* and the fetcher built by createRedisCacheFetcher() (fetch, the plain    *)
(* call, reset).  One fetcher on one cache key; its invocations suspend at *)
(* every await (cache read, producer, cache write).  SeqSpec: calls that   *)
(* do not overlap; ConcSpec: a bounded number of calls that do; CacheSpec: *)
(* a RedisCache used on its own.                                           *)
(***************************************************************************)
EXTENDS Integers, FiniteSets, Sequences, TLC

(***************************************************************************)
(* Bounds of the model                                                     *)
(***************************************************************************)
\* seconds the clock may advance
MaxClock == 3
\* seconds the clock may advance while a RedisCache is used on its own
MaxCacheClock == 2
\* calls of the fetcher and of reset() that may overlap, and the seconds the
\* clock may advance meanwhile
MaxOps == 2
MaxConcClock == 1
\* seconds the clock may advance while two fetchers share a RedisCache
MaxPairClock == 2

(***************************************************************************)
(* Program constants                                                       *)
(***************************************************************************)
MsPerSecond == 1000
DefaultAutoUpdateSeconds == 3600
DefaultTtl == 3600

(***************************************************************************)
(* JavaScript values                                                       *)
(***************************************************************************)
Undefined == [t |-> "undefined"]
Null == [t |-> "null"]
False == [t |-> "boolean", b |-> FALSE]
True == [t |-> "boolean", b |-> TRUE]
Str(x) == [t |-> "string", s |-> x]
\* an object that refers to itself
Circular == [t |-> "circular"]
Num(n) == [t |-> "number", n |-> n]
Obj(props) == [t |-> "object", props |-> props]
Error(message, cause) == [t |-> "error", message |-> message, cause |-> cause]
NOT_FOUND == [t |-> "symbol", name |-> "NOT_FOUND"]
NOT_INITIALIZED_YET == [t |-> "symbol", name |-> "NOT_INITIALIZED_YET"]

\* typeof v
TypeOf(v) == IF v.t \in {"null", "error", "circular"} THEN "object" ELSE v.t
\* !!v
Truthy(v) ==
    CASE v.t = "undefined" -> FALSE
      [] v.t = "null" -> FALSE
      [] v.t = "boolean" -> v.b
      [] v.t = "number" -> v.n # 0
      [] OTHER -> TRUE
\* o.name : a missing property reads as undefined
Prop(o, name) == IF name \in DOMAIN o.props THEN o.props[name] ELSE Undefined
\* isNil(val)
isNil(v) == v.t = "undefined" \/ v.t = "null"

\* the values of RedisCacheFetcherValueStatus
NoValueAvailable == 0
Cached == 1
UpToDate == 2

(***************************************************************************)
(* JSON texts (the strings held by the store)                              *)
(***************************************************************************)
JNum(n) == [j |-> "number", n |-> n]
JNull == [j |-> "null"]
JObj(members) == [j |-> "object", members |-> members]
\* a stored string that is not JSON
NotJson == [j |-> "invalid"]

\* JSON.stringify(v) for the values the fetcher writes: a property whose value
\* is undefined is left out of the text
StringifyPrim(v) == IF v.t = "number" THEN JNum(v.n) ELSE JNull
JSONstringify(v) ==
    IF v.t = "object"
    THEN JObj([k \in {n \in DOMAIN v.props : v.props[n].t # "undefined"} |->
                  StringifyPrim(v.props[k])])
    ELSE StringifyPrim(v)

\* JSON.stringify(v) throws on a circular structure
StringifyThrows(v) == v.t = "circular"

\* JSON.parse(s) throws on a string that is not JSON
ParseThrows(s) == s.j = "invalid"
ParsePrim(s) == IF s.j = "number" THEN Num(s.n) ELSE Null
JSONparse(s) ==
    IF s.j = "object"
    THEN Obj([k \in DOMAIN s.members |-> ParsePrim(s.members[k])])
    ELSE ParsePrim(s)

(***************************************************************************)
(* The store entry under the fetcher's key                                 *)
(***************************************************************************)
NoEntry == [present |-> FALSE]
Entry(text, expires, at) ==
    [present |-> TRUE, text |-> text, expires |-> expires, expireAt |-> at]

(***************************************************************************)
(* RedisCache                                                              *)
(***************************************************************************)
\* variant: the stored string is returned as it is
RedisCacheGet_Raw(ok, entry, defaultValue) ==
    IF ~ok THEN defaultValue
    ELSE IF ~entry.present THEN defaultValue
    ELSE Str(entry.text)

\* RedisCache.get(key, defaultValue): ok is whether the store answered the read
RedisCacheGet(ok, entry, defaultValue) ==
    IF ~ok THEN defaultValue
    ELSE IF ~entry.present THEN defaultValue
    ELSE IF ParseThrows(entry.text) THEN defaultValue
    ELSE JSONparse(entry.text)

\* variant: a write over a stored object keeps the stored updateAfter member
RedisCacheSet_Merge(ok, entry, value, ttlArg, nowSec) ==
    LET new == JSONstringify(value)
        text == IF /\ entry.present
                   /\ entry.text.j = "object"
                   /\ new.j = "object"
                   /\ "updateAfter" \in DOMAIN entry.text.members
                   /\ "updateAfter" \in DOMAIN new.members
                THEN JObj([new.members EXCEPT
                              !["updateAfter"] = entry.text.members["updateAfter"]])
                ELSE new
    IN  IF isNil(value)
        THEN (IF ok THEN [entry |-> NoEntry, result |-> TRUE]
                    ELSE [entry |-> entry, result |-> FALSE])
        ELSE IF StringifyThrows(value) \/ ~ok
             THEN [entry |-> entry, result |-> FALSE]
        ELSE IF ttlArg.t = "boolean"
             THEN [entry |-> Entry(text, FALSE, 0), result |-> TRUE]
             ELSE [entry |-> Entry(text, TRUE, nowSec + ttlArg.n), result |-> TRUE]

\* variant: a write the store rejects leaves the key empty
RedisCacheSet_FailClears(ok, entry, value, ttlArg, nowSec) ==
    IF isNil(value)
    THEN (IF ok THEN [entry |-> NoEntry, result |-> TRUE]
                ELSE [entry |-> entry, result |-> FALSE])
    ELSE IF StringifyThrows(value) THEN [entry |-> entry, result |-> FALSE]
    ELSE IF ~ok THEN [entry |-> NoEntry, result |-> FALSE]
    ELSE IF ttlArg.t = "boolean"
         THEN [entry |-> Entry(JSONstringify(value), FALSE, 0), result |-> TRUE]
         ELSE [entry |-> Entry(JSONstringify(value), TRUE, nowSec + ttlArg.n),
               result |-> TRUE]

\* variant: an entry that exists is not overwritten (as SET ... NX), and the
\* call still reports success
RedisCacheSet_KeepExisting(ok, entry, value, ttlArg, nowSec) ==
    IF isNil(value)
    THEN (IF ok THEN [entry |-> NoEntry, result |-> TRUE]
                ELSE [entry |-> entry, result |-> FALSE])
    ELSE IF StringifyThrows(value) \/ ~ok THEN [entry |-> entry, result |-> FALSE]
    ELSE IF entry.present THEN [entry |-> entry, result |-> TRUE]
    ELSE IF ttlArg.t = "boolean"
         THEN [entry |-> Entry(JSONstringify(value), FALSE, 0), result |-> TRUE]
         ELSE [entry |-> Entry(JSONstringify(value), TRUE, nowSec + ttlArg.n),
               result |-> TRUE]

\* variant: a rewrite keeps the pending expiry of the entry
RedisCacheSet_KeepTtl(ok, entry, value, ttlArg, nowSec) ==
    IF isNil(value)
    THEN (IF ok THEN [entry |-> NoEntry, result |-> TRUE]
                ELSE [entry |-> entry, result |-> FALSE])
    ELSE IF StringifyThrows(value) \/ ~ok THEN [entry |-> entry, result |-> FALSE]
    ELSE IF entry.present /\ entry.expires
         THEN [entry |-> Entry(JSONstringify(value), TRUE, entry.expireAt),
               result |-> TRUE]
    ELSE IF ttlArg.t = "boolean"
         THEN [entry |-> Entry(JSONstringify(value), FALSE, 0), result |-> TRUE]
         ELSE [entry |-> Entry(JSONstringify(value), TRUE, nowSec + ttlArg.n),
               result |-> TRUE]

\* variant: only undefined deletes the key, null is stored
RedisCacheSet_NullStored(ok, entry, value, ttlArg, nowSec) ==
    IF value.t = "undefined"
    THEN (IF ok THEN [entry |-> NoEntry, result |-> TRUE]
                ELSE [entry |-> entry, result |-> FALSE])
    ELSE IF StringifyThrows(value) \/ ~ok THEN [entry |-> entry, result |-> FALSE]
    ELSE IF ttlArg.t = "boolean"
         THEN [entry |-> Entry(JSONstringify(value), FALSE, 0), result |-> TRUE]
         ELSE [entry |-> Entry(JSONstringify(value), TRUE, nowSec + ttlArg.n),
               result |-> TRUE]

\* RedisCache.set(key, value, ttl) at store time nowSec: the entry afterwards
\* and the boolean returned; ok is whether the store accepted the command
RedisCacheSet(ok, entry, value, ttlArg, nowSec) ==
    IF isNil(value)
    THEN (IF ok THEN [entry |-> NoEntry, result |-> TRUE]
                ELSE [entry |-> entry, result |-> FALSE])
    ELSE IF StringifyThrows(value) \/ ~ok THEN [entry |-> entry, result |-> FALSE]
    ELSE IF ttlArg.t = "boolean"
         THEN [entry |-> Entry(JSONstringify(value), FALSE, 0), result |-> TRUE]
         ELSE [entry |-> Entry(JSONstringify(value), TRUE, nowSec + ttlArg.n),
               result |-> TRUE]

\* the store drops an entry whose expiry time has come
Expire(entry, nowSec) ==
    IF entry.present /\ entry.expires /\ entry.expireAt <= nowSec
    THEN NoEntry ELSE entry

\* what a call of a method does: it returns a value or raises
Returned(v) == [k |-> "return", v |-> v]
Raised == [k |-> "raise"]

\* variant: an omitted ttl means no expiry
EffectiveTtl_NoDefault(ttlArg) ==
    IF ttlArg.t = "undefined" THEN False ELSE ttlArg

\* set(key, value, ttl = 3600): the default applies when ttl is undefined
EffectiveTtl(ttlArg) ==
    IF ttlArg.t = "undefined" THEN Num(DefaultTtl) ELSE ttlArg

\* variant: the error of JSON.parse escapes
GetOutcome_ParseEscapes(ok, entry, defaultValue) ==
    IF ok /\ entry.present /\ ParseThrows(entry.text) THEN Raised
    ELSE Returned(RedisCacheGet(ok, entry, defaultValue))

\* get(key, defaultValue) as seen by the caller: try/catch around the read
\* and JSON.parse, the default after it
GetOutcome(ok, entry, defaultValue) ==
    Returned(RedisCacheGet(ok, entry, defaultValue))

\* variant: the error of JSON.stringify escapes
SetOutcome_StringifyEscapes(ok, entry, value, ttlArg, nowSec) ==
    LET r == RedisCacheSet(ok, entry, value, EffectiveTtl(ttlArg), nowSec) IN
    [entry |-> r.entry,
     outcome |-> IF ~isNil(value) /\ StringifyThrows(value) THEN Raised
                 ELSE Returned(IF r.result THEN True ELSE False)]

\* set(key, value, ttl) as seen by the caller: try/catch around isNil,
\* JSON.stringify and the store command; the entry afterwards
SetOutcome(ok, entry, value, ttlArg, nowSec) ==
    LET r == RedisCacheSet(ok, entry, value, EffectiveTtl(ttlArg), nowSec) IN
    [entry |-> r.entry,
     outcome |-> Returned(IF r.result THEN True ELSE False)]

\* the reply of the store to FLUSHDB
FlushReply == Str("OK")

\* flush() as seen by the caller: the response of flushDb is returned as it
\* is, false when the command rejects
FlushOutcome(ok) == Returned(IF ok THEN FlushReply ELSE False)

\* variant: close(force) as it was when it took an argument: quit unless
\* force is given
CloseCommand_Force(arg) == IF Truthy(arg) THEN "disconnect" ELSE "quit"

\* close(): the command sent to the client; whatever a caller passes, the
\* method takes no argument and awaits client.disconnect()
CloseCommand(arg) == "disconnect"

\* close() as seen by the caller: true when the command resolved, false when
\* it rejected
CloseOutcome(ok) == Returned(IF ok THEN True ELSE False)

(***************************************************************************)
(* createRedisCacheFetcher: options                                        *)
(***************************************************************************)
\* let ttl = false; if (!isNil(options?.ttl)) ttl = options.ttl
OptionTtl(options) == IF isNil(options.ttl) THEN False ELSE options.ttl
\* variant: null falls back to the default like undefined
OptionAutoUpdateAfter_NullDefault(options) ==
    IF isNil(options.autoUpdateAfter)
    THEN Num(DefaultAutoUpdateSeconds * MsPerSecond)
    ELSE Num(options.autoUpdateAfter.n * MsPerSecond)

\* autoUpdateAfter in milliseconds, or null
OptionAutoUpdateAfter(options) ==
    IF options.autoUpdateAfter.t = "undefined"
    THEN Num(DefaultAutoUpdateSeconds * MsPerSecond)
    ELSE IF options.autoUpdateAfter.t = "number"
         THEN Num(options.autoUpdateAfter.n * MsPerSecond)
         ELSE Null

(***************************************************************************)
(* createRedisCacheFetcher: fetch                                          *)
(***************************************************************************)
\* variant: the fetched value is not put into the object
ValueToCache_NoValue(fetchResult, now, autoUpdateAfterMs) ==
    Obj([updateAfter |-> IF autoUpdateAfterMs.t = "number"
                         THEN Num(now + autoUpdateAfterMs.n) ELSE Null,
         value |-> Null])

\* variant: the interval is added in seconds
ValueToCache_Seconds(fetchResult, now, autoUpdateAfterMs) ==
    Obj([updateAfter |-> IF autoUpdateAfterMs.t = "number"
                         THEN Num(now + autoUpdateAfterMs.n \div MsPerSecond)
                         ELSE Null,
         value |-> fetchResult])

\* the object refetch() hands to redis.set
ValueToCache(fetchResult, now, autoUpdateAfterMs) ==
    Obj([updateAfter |-> IF autoUpdateAfterMs.t = "number"
                         THEN Num(now + autoUpdateAfterMs.n) ELSE Null,
         value |-> fetchResult])

\* cachedValue is taken as a cached object (neither NOT_FOUND nor a non-object)
IsCachedObject(cachedValue) ==
    /\ cachedValue.t # "symbol"
    /\ Truthy(cachedValue)
    /\ TypeOf(cachedValue) = "object"

\* variant: a cache miss forgets the last value
AdoptCached_MissForgets(cachedValue, lastVal) ==
    IF IsCachedObject(cachedValue)
    THEN Prop(cachedValue, "value") ELSE NOT_INITIALIZED_YET

\* variant: the cached value is not adopted
AdoptCached_Never(cachedValue, lastVal) == lastVal

\* lastValue after the cache read
AdoptCached(cachedValue, lastVal) ==
    IF IsCachedObject(cachedValue) THEN Prop(cachedValue, "value") ELSE lastVal

\* variant: refreshes already when now equals updateAfter
NeedsRefetch_AtDeadline(cachedValue, now) ==
    IF cachedValue.t = "symbol" THEN TRUE
    ELSE IF IsCachedObject(cachedValue)
         THEN /\ Prop(cachedValue, "updateAfter").t = "number"
              /\ now >= Prop(cachedValue, "updateAfter").n
         ELSE TRUE

\* variant: a missing entry does not make fetch call refetch()
NeedsRefetch_HitsOnly(cachedValue, now) ==
    IF cachedValue.t = "symbol" THEN FALSE
    ELSE IF IsCachedObject(cachedValue)
         THEN /\ Prop(cachedValue, "updateAfter").t = "number"
              /\ now > Prop(cachedValue, "updateAfter").n
         ELSE TRUE

\* whether fetch calls refetch() after the cache read
NeedsRefetch(cachedValue, now) ==
    IF cachedValue.t = "symbol" THEN TRUE
    ELSE IF IsCachedObject(cachedValue)
         THEN /\ Prop(cachedValue, "updateAfter").t = "number"
              /\ now > Prop(cachedValue, "updateAfter").n
         ELSE TRUE

\* variant: the catch block keeps the error whatever lastValue is
CatchError_Always(lastVal, error) == error

\* the catch block of fetch: the value of errorToThrow
CatchError(lastVal, error) ==
    IF lastVal = NOT_INITIALIZED_YET THEN error ELSE Undefined

\* variant: fetch rethrows the error instead of reporting it (as the fetcher
\* did before it had a descriptor)
FetchCompletion_Rethrow(errorToThrow, value, valueStatus) ==
    IF errorToThrow.t # "undefined"
    THEN [k |-> "raise", v |-> errorToThrow]
    ELSE [k |-> "return",
          v |-> [errorToThrow |-> errorToThrow, value |-> value,
                 valueStatus |-> valueStatus]]

\* what fetch(...) hands back: the descriptor, as a normal return
FetchCompletion(errorToThrow, value, valueStatus) ==
    [k |-> "return",
     v |-> [errorToThrow |-> errorToThrow, value |-> value,
            valueStatus |-> valueStatus]]

\* the getters of the result descriptor
ResultErrorToThrow(d) == d.errorToThrow
ResultValue(d) ==
    IF d.value = NOT_INITIALIZED_YET
    THEN [k |-> "raise",
          v |-> Error("No data available yet!",
                      IF isNil(d.errorToThrow) THEN Undefined ELSE d.errorToThrow)]
    ELSE [k |-> "return", v |-> d.value]
\* variant: the value getter reads the lastValue of the fetcher
LocalsRead_Live(d, lastVal) == [d EXCEPT !.value = lastVal]

\* what the getters of a descriptor read when they are called while the
\* fetcher holds lastVal: errorToThrow, value and valueStatus of the call that
\* built the descriptor
LocalsRead(d, lastVal) == d

\* variant: the status getter reports the local status as it is
ResultValueStatus_Raw(d) == d.valueStatus

ResultValueStatus(d) ==
    IF d.value = NOT_INITIALIZED_YET THEN NoValueAvailable ELSE d.valueStatus

\* variant: errorToThrow is tested before value is read
NewFetcher_ErrorFirst(d) ==
    IF Truthy(ResultErrorToThrow(d))
    THEN [k |-> "raise",
          v |-> Error("errorToThrow is not a constructor", Undefined)]
    ELSE ResultValue(d)

\* newFetcher(...args): destructures errorToThrow and value from the descriptor
\* (reading value may raise), then throws or returns
NewFetcher(d) ==
    LET e == ResultErrorToThrow(d)
        r == ResultValue(d)
    IN IF r.k = "raise" THEN r
       ELSE IF Truthy(e)
            THEN [k |-> "raise",
                  v |-> Error("errorToThrow is not a constructor", Undefined)]
            ELSE r

\* variant: a cache write that failed is issued a second time
RefetchAfterSet_RetryOnce(setOk, writes) ==
    IF setOk = "failed" /\ writes < 2 THEN "set" ELSE "return"

\* refetch() once redis.set has resolved: it returns, whatever set reported
\* ("set": the write is issued again)
RefetchAfterSet(setOk, writes) == "return"

\* variant: reset() never touches lastValue
ResetLastValue_Never(hasBeenRemovedFromCache, lastVal) == lastVal

\* variant: reset() clears lastValue whatever the deletion reported (as the
\* fetcher did before)
ResetLastValue_Always(hasBeenRemovedFromCache, lastVal) == NOT_INITIALIZED_YET

\* reset(): lastValue after the deletion reported hasBeenRemovedFromCache
ResetLastValue(hasBeenRemovedFromCache, lastVal) ==
    IF hasBeenRemovedFromCache THEN NOT_INITIALIZED_YET ELSE lastVal

(***************************************************************************)
(* State                                                                   *)
(***************************************************************************)
\* the invocation slots of the fetcher; Main is the one sequential runs use
Procs == {"a", "b"}
Main == "a"

\* what the producer may resolve to, and what it may throw
ProducerValues == {Num(1), Num(2)}
ProducerErrors == {Error("E1", Undefined), Error("E2", Undefined)}

\* the options a fetcher may be created with; NoOptions: none are given
NoOptions == [autoUpdateAfter |-> Undefined, ttl |-> Undefined]
OptionSets ==
    [autoUpdateAfter : {Undefined, Null, Num(1)}, ttl : {Undefined, Num(2)}]

\* what the key may hold when the fetcher is created: nothing, an envelope left
\* by an earlier process (never refreshed, or to be refreshed after 1000 ms),
\* a string that is not JSON, or JSON that is no envelope
InitialEntries ==
    { NoEntry,
      Entry(JObj([updateAfter |-> JNull, value |-> JNum(3)]), FALSE, 0),
      Entry(JObj([updateAfter |-> JNum(1000), value |-> JNum(3)]), FALSE, 0),
      Entry(NotJson, FALSE, 0),
      Entry(JNum(5), FALSE, 0),
      Entry(JNull, FALSE, 0),
      Entry(JObj([updateAfter |-> JNull]), FALSE, 0) }

\* the keys of a RedisCache used on its own, the values and ttl arguments
\* handed to set (undefined: the argument is omitted) and the defaults handed
\* to get
Keys == {"k1", "k2"}
SetValues ==
    {Obj([a |-> Num(2)]), Obj([a |-> Undefined]), Circular, Null, Undefined}
TtlArgs == {Undefined, False, Num(1)}
GetDefaults == {Undefined, Num(9)}
\* the calls made: every combination on the first key; the second key is
\* there to see that calls on one key leave the others alone and that flush
\* removes every key, and takes one value without expiry or a deletion
OtherKey == "k2"
SetCalls ==
    {c \in Keys \X SetValues \X TtlArgs :
        c[1] = OtherKey => (c[2] \in {Obj([a |-> Num(2)]), Null} /\ c[3] = False)}
GetCalls ==
    {c \in Keys \X GetDefaults : c[1] = OtherKey => c[2] = Undefined}
\* two fetchers created with createFetcher on the same RedisCache, and the
\* key each was created with
Fetchers == {"fA", "fB"}
FetcherKeys == [fA |-> "k1", fB |-> "k2"]
\* the options both are created with
PairOptions == [autoUpdateAfter |-> Num(1), ttl |-> Undefined]
\* a fetcher with no operation in progress and nothing fetched yet
IdleFetcher ==
    [pc |-> "idle", kind |-> "none", now |-> 0, cachedValue |-> Undefined,
     valueToCache |-> Undefined, removed |-> FALSE,
     lastValue |-> NOT_INITIALIZED_YET]

\* the caller has kept no descriptor
NoneKept == [held |-> FALSE]

\* what close is called with: nothing, or true
CloseArgs == {Undefined, True}
\* what a key may hold before the first call: nothing, or a string put there
\* by another writer that is not JSON
ForeignEntries == {NoEntry, Entry(NotJson, FALSE, 0)}

\* no call of a RedisCache method yet
NoOp == [kind |-> "none"]
\* what the calls of set() and flush() so far say about a key: nothing, that
\* it was deleted by set(k, nil) when it held the entry held, or that value
\* was written at second at
NotSet == [st |-> "unknown"]
Deleted(held) == [st |-> "deleted", held |-> held]
Written(value, ttlArg, at) ==
    [st |-> "set", value |-> value, ttl |-> ttlArg, at |-> at]

VARIABLES
    store,            \* the store entry under the fetcher's key
    clock,            \* the time, in seconds
    ttl,              \* createRedisCacheFetcher: ttl
    autoUpdateAfter,  \* createRedisCacheFetcher: autoUpdateAfter (ms or null)
    lastValue,        \* createRedisCacheFetcher: lastValue
    inv,              \* the invocations of fetch, one record per slot
    rst,              \* the call of reset()
    hist,             \* history of the fetcher, read by the properties only
    ops,              \* the operations of the fetcher started so far
    db,               \* the store entries under the keys of a RedisCache
    sets,             \* per key, the last value set and not deleted since
    op,               \* the last call of a RedisCache method and its outcome
    conn,             \* the connection of the client: "open" or "closed"
    pair,             \* two fetchers created on one RedisCache: for each, the
                      \* position and the locals of its operation in progress
                      \* and its lastValue
    kept              \* a descriptor fetch returned that the caller has kept,
                      \* with what its getters reported at that time

\* the variables of a RedisCache used on its own
cacheVars == <<db, sets, op, conn, pair, kept>>

vars == <<store, clock, ttl, autoUpdateAfter, lastValue, inv, rst, hist, ops,
          db, sets, op, conn, pair, kept>>

\* variant of IdleInv below: valueStatus starts as UpToDate
\*
\* IdleInv is an invocation slot before its first call.  The fields now, cachedValue,
\* errorToThrow, valueStatus, valueToCache and value are the locals of fetch;
\* result is what fetch handed back.  The others record what happened in the
\* call: lastValue when it started, what the store held at the read and whether
\* the read succeeded, whether the producer ran and with what outcome, lastValue
\* when the producer threw, whether its cache write was applied, whether the
\* entry was changed by a flush or an expiry since the call started, and what the
\* fetcher's history was when it started.
IdleInv_UpToDate ==
    [pc |-> "idle", now |-> 0, cachedValue |-> Undefined,
     errorToThrow |-> Undefined, valueStatus |-> UpToDate,
     valueToCache |-> Undefined, value |-> Undefined,
     result |-> [k |-> "none"],
     startLast |-> Undefined, readOk |-> FALSE, readEntry |-> NoEntry,
     producer |-> "no", produced |-> Undefined, lastAtThrow |-> Undefined,
     setOk |-> "none", touched |-> FALSE, cleared |-> FALSE,
     calls |-> 0, writes |-> 0,
     after |-> "none", afterSuccess |-> FALSE]

IdleInv ==
    [pc |-> "idle", now |-> 0, cachedValue |-> Undefined,
     errorToThrow |-> Undefined, valueStatus |-> Cached,
     valueToCache |-> Undefined, value |-> Undefined,
     result |-> [k |-> "none"],
     startLast |-> Undefined, readOk |-> FALSE, readEntry |-> NoEntry,
     producer |-> "no", produced |-> Undefined, lastAtThrow |-> Undefined,
     setOk |-> "none", touched |-> FALSE, cleared |-> FALSE,
     calls |-> 0, writes |-> 0,
     after |-> "none", afterSuccess |-> FALSE]

IdleReset ==
    [pc |-> "idle", removed |-> FALSE, returned |-> FALSE,
     storeOk |-> FALSE, lastBefore |-> Undefined, lastAfter |-> Undefined,
     assigned |-> FALSE, written |-> FALSE]

\* the record of reset() notes that a call assigned lastValue after reset()
\* returned, and that a call's cache write was accepted after the deletion
NoteAssigned(r) == IF r.pc = "done" THEN [r EXCEPT !.assigned = TRUE] ELSE r
NoteWritten(r) ==
    IF r.pc \in {"deleted", "done"} THEN [r EXCEPT !.written = TRUE] ELSE r
\* the records of the calls in flight note that reset() returned true, that
\* is, cleared lastValue; a call that assigns lastValue drops the note
NoteCleared(i, removed) ==
    [p \in Procs |-> IF removed /\ i[p].pc \notin {"idle", "done"}
                     THEN [i[p] EXCEPT !.cleared = TRUE] ELSE i[p]]

\* hist.succeeded: an invocation has completed without raising since the last
\* reset() was called; hist.ever: one has since the fetcher was created
\* hist.fresh: the producer has returned since reset() was last called, and
\* hist.latest is what it returned last; hist.written: the invocation whose
\* cache write made the entry now stored, by the value its producer returned
\* and its own now; hist.options: the options the fetcher was created with
NoWrite == [set |-> FALSE]
WriteOf(r) == [set |-> TRUE, value |-> r.produced, now |-> r.now]
InitHist ==
    [succeeded |-> FALSE, ever |-> FALSE, fresh |-> FALSE, latest |-> Undefined,
     written |-> NoWrite, options |-> NoOptions]

\* the history once the entry is entry: a removed entry has no writer
HistOfEntry(h, entry) ==
    IF entry.present THEN h ELSE [h EXCEPT !.written = NoWrite]
\* the history once a flush or an expiry has turned the entry before into
\* after: an entry lost that way is noted
LostWrite == [set |-> FALSE, lost |-> TRUE]
HistOfLoss(h, before, after) ==
    IF before.present /\ ~after.present THEN [h EXCEPT !.written = LostWrite]
    ELSE h

\* a completed operation's record is kept until the next operation starts
Cleared(i, p) ==
    [q \in Procs |-> IF q # p /\ i[q].pc = "done" THEN IdleInv ELSE i[q]]
\* "ok" / "failed" when the last operation completed is a reset() that returned
\* true / false
LastReset ==
    IF rst.pc = "done" THEN (IF rst.returned THEN "ok" ELSE "failed") ELSE "none"

Init ==
    /\ store \in InitialEntries
    /\ clock = 0
    /\ \E o \in OptionSets :
          /\ ttl = OptionTtl(o)
          /\ autoUpdateAfter = OptionAutoUpdateAfter(o)
          /\ hist = [InitHist EXCEPT !.options = o]
    /\ lastValue = NOT_INITIALIZED_YET
    /\ inv = [p \in Procs |-> IdleInv]
    /\ rst = IdleReset
    /\ ops = 0
    /\ db = [k \in Keys |-> NoEntry]
    /\ sets = [k \in Keys |-> NotSet]
    /\ op = NoOp
    /\ conn = "open"
    /\ pair = [f \in Fetchers |-> IdleFetcher]
    /\ kept = NoneKept

InFlight(p) == inv[p].pc \notin {"idle", "done"}
ResetInFlight == rst.pc \notin {"idle", "done"}
\* no operation of the fetcher is in flight
Quiet == (\A p \in Procs : ~InFlight(p)) /\ ~ResetInFlight

(***************************************************************************)
(* fetch: the steps between its awaits                                     *)
(***************************************************************************)
\* variant: the descriptor reports lastValue as it was when fetch was called
Complete_AtStart(r, lastVal) ==
    [r EXCEPT !.pc = "done", !.value = r.startLast,
              !.result = FetchCompletion(r.errorToThrow, r.startLast,
                                         r.valueStatus)]

\* the end of fetch: value = lastValue, the descriptor is built and returned
Complete(r, lastVal) ==
    [r EXCEPT !.pc = "done", !.value = lastVal,
              !.result = FetchCompletion(r.errorToThrow, lastVal, r.valueStatus)]

\* the history after an invocation completed with record r
HistAfter(h, r) ==
    LET ok == r.result.k = "return" /\ NewFetcher(r.result.v).k = "return"
    IN [h EXCEPT !.succeeded = h.succeeded \/ ok, !.ever = h.ever \/ ok]

\* fetch is called: now is captured and the cache read is issued
Start(p) ==
    /\ ~InFlight(p)
    /\ inv' = [Cleared(inv, p) EXCEPT ![p] =
                 [IdleInv EXCEPT !.pc = "get", !.now = clock * MsPerSecond,
                                 !.startLast = lastValue,
                                 !.after = LastReset,
                                 !.afterSuccess = hist.succeeded]]
    /\ rst' = IF rst.pc = "done" THEN IdleReset ELSE rst
    /\ UNCHANGED <<store, clock, ttl, autoUpdateAfter, lastValue, hist,
                 cacheVars>>

\* redis.get(key, NOT_FOUND) runs at the store
CacheGet(p, ok) ==
    /\ inv[p].pc = "get"
    /\ inv' = [inv EXCEPT ![p].pc = "gotten",
                          ![p].cachedValue = RedisCacheGet(ok, store, NOT_FOUND),
                          ![p].readOk = ok,
                          ![p].readEntry = store]
    /\ UNCHANGED <<store, clock, ttl, autoUpdateAfter, lastValue, rst, hist,
                 ops, cacheVars>>

\* fetch resumes after the cache read: adopts the cached value, then either
\* calls the producer or completes
AfterGet(p) ==
    /\ inv[p].pc = "gotten"
    /\ LET c == inv[p].cachedValue
           lv == AdoptCached(c, lastValue)
           r == IF IsCachedObject(c) THEN [inv[p] EXCEPT !.cleared = FALSE]
                ELSE inv[p]
       IN /\ lastValue' = lv
          /\ rst' = IF IsCachedObject(c) THEN NoteAssigned(rst) ELSE rst
          /\ IF NeedsRefetch(c, inv[p].now)
             THEN /\ inv' = [inv EXCEPT ![p] = [r EXCEPT !.pc = "producer",
                                                         !.producer = "pending",
                                                         !.calls = @ + 1]]
                  /\ hist' = hist
             ELSE /\ inv' = [inv EXCEPT ![p] = Complete(r, lv)]
                  /\ hist' = HistAfter(hist, Complete(r, lv))
    /\ UNCHANGED <<store, clock, ttl, autoUpdateAfter,
                 ops, cacheVars>>

\* the producer resolves with w: refetch() sets lastValue and valueStatus and
\* issues the cache write
ProducerReturn(p, w) ==
    /\ inv[p].pc = "producer"
    /\ lastValue' = w
    /\ inv' = [inv EXCEPT ![p].pc = "set",
                          ![p].producer = "ok",
                          ![p].produced = w,
                          ![p].valueStatus = UpToDate,
                          ![p].cleared = FALSE,
                          ![p].writes = @ + 1,
                          ![p].valueToCache =
                              ValueToCache(w, inv[p].now, autoUpdateAfter)]
    /\ rst' = NoteAssigned(rst)
    /\ hist' = [hist EXCEPT !.fresh = TRUE, !.latest = w]
    /\ UNCHANGED <<store, clock, ttl, autoUpdateAfter,
                 ops, cacheVars>>

\* the producer throws e: the catch block runs and fetch completes
ProducerThrow(p, e) ==
    /\ inv[p].pc = "producer"
    /\ LET r == Complete([inv[p] EXCEPT !.producer = "throw",
                                        !.produced = e,
                                        !.lastAtThrow = lastValue,
                                        !.errorToThrow = CatchError(lastValue, e)],
                         lastValue)
       IN /\ inv' = [inv EXCEPT ![p] = r]
          /\ hist' = HistAfter(hist, r)
    /\ UNCHANGED <<store, clock, ttl, autoUpdateAfter, lastValue, rst,
                 ops, cacheVars>>

\* redis.set(key, valueToCache, ttl) runs at the store
CacheSet(p, ok) ==
    /\ inv[p].pc = "set"
    /\ LET w == RedisCacheSet(ok, store, inv[p].valueToCache, ttl, clock)
       IN /\ store' = w.entry
          /\ inv' = [inv EXCEPT ![p].pc = "written",
                                ![p].setOk = IF w.result THEN "ok" ELSE "failed"]
          /\ hist' = IF w.result THEN [hist EXCEPT !.written = WriteOf(inv[p])]
                      ELSE hist
          /\ rst' = IF w.result THEN NoteWritten(rst) ELSE rst
    /\ UNCHANGED <<clock, ttl, autoUpdateAfter, lastValue,
                 ops, cacheVars>>

\* fetch resumes after the cache write and completes
AfterSet(p) ==
    /\ inv[p].pc = "written"
    /\ IF RefetchAfterSet(inv[p].setOk, inv[p].writes) = "set"
       THEN /\ inv' = [inv EXCEPT ![p].pc = "set", ![p].writes = @ + 1]
            /\ hist' = hist
       ELSE /\ inv' = [inv EXCEPT ![p] = Complete(inv[p], lastValue)]
            /\ hist' = HistAfter(hist, Complete(inv[p], lastValue))
    /\ UNCHANGED <<store, clock, ttl, autoUpdateAfter, lastValue, rst,
                 ops, cacheVars>>

(***************************************************************************)
(* reset                                                                   *)
(***************************************************************************)
\* reset() is called: redis.set(key, null) is issued
ResetStart ==
    /\ ~ResetInFlight
    /\ rst' = [IdleReset EXCEPT !.pc = "del"]
    /\ inv' = Cleared(inv, "")
    /\ hist' = [hist EXCEPT !.succeeded = FALSE, !.fresh = FALSE,
                            !.latest = Undefined]
    /\ UNCHANGED <<store, clock, ttl, autoUpdateAfter, lastValue,
                 cacheVars>>

\* redis.set(key, null) runs at the store (ttl is the default, 3600)
CacheDel(ok) ==
    /\ rst.pc = "del"
    /\ LET w == RedisCacheSet(ok, store, Null, Num(DefaultTtl), clock)
       IN /\ store' = w.entry
          /\ rst' = [rst EXCEPT !.pc = "deleted", !.removed = w.result,
                                !.storeOk = ok]
          /\ hist' = HistOfEntry(hist, w.entry)
    /\ UNCHANGED <<clock, ttl, autoUpdateAfter, lastValue, inv,
                 ops, cacheVars>>

\* reset() resumes after the deletion and returns
ResetDone ==
    /\ rst.pc = "deleted"
    /\ lastValue' = ResetLastValue(rst.removed, lastValue)
    /\ rst' = [rst EXCEPT !.pc = "done", !.returned = rst.removed,
                          !.lastBefore = lastValue,
                          !.lastAfter = ResetLastValue(rst.removed, lastValue)]
    /\ inv' = NoteCleared(inv, rst.removed)
    /\ UNCHANGED <<store, clock, ttl, autoUpdateAfter, hist,
                 ops, cacheVars>>

(***************************************************************************)
(* The environment: time and RedisCache.flush()                            *)
(***************************************************************************)
\* the records of the invocations note that the entry was changed by a flush
\* or an expiry since they started
Touch(changed) ==
    [p \in Procs |-> IF changed /\ inv[p].pc # "idle"
                     THEN [inv[p] EXCEPT !.touched = TRUE] ELSE inv[p]]

\* a second passes; the store drops the entry if it has expired
Tick ==
    /\ clock < MaxClock
    /\ clock' = clock + 1
    /\ store' = Expire(store, clock + 1)
    /\ inv' = Touch(Expire(store, clock + 1) # store)
    /\ hist' = HistOfLoss(hist, store, Expire(store, clock + 1))
    /\ UNCHANGED <<ttl, autoUpdateAfter, lastValue, rst,
                 ops, cacheVars>>

\* RedisCache.flush(): flushDb removes every key when the store accepts it
Flush(ok) ==
    /\ store' = IF ok THEN NoEntry ELSE store
    /\ inv' = Touch(ok /\ store.present)
    /\ hist' = IF ok THEN HistOfLoss(hist, store, NoEntry) ELSE hist
    /\ UNCHANGED <<clock, ttl, autoUpdateAfter, lastValue, rst,
                 ops, cacheVars>>

(***************************************************************************)
(* Specifications                                                          *)
(***************************************************************************)
\* invocations and reset() of one fetcher overlap freely
Next ==
    \/ \E p \in Procs : Start(p) /\ UNCHANGED ops
    \/ \E p \in Procs, ok \in BOOLEAN : CacheGet(p, ok)
    \/ \E p \in Procs : AfterGet(p)
    \/ \E p \in Procs, w \in ProducerValues : ProducerReturn(p, w)
    \/ \E p \in Procs, e \in ProducerErrors : ProducerThrow(p, e)
    \/ \E p \in Procs, ok \in BOOLEAN : CacheSet(p, ok)
    \/ \E p \in Procs : AfterSet(p)
    \/ ResetStart /\ UNCHANGED ops
    \/ \E ok \in BOOLEAN : CacheDel(ok)
    \/ ResetDone
    \/ Tick
    \/ \E ok \in BOOLEAN : Flush(ok)

Spec == Init /\ [][Next]_vars

\* a bounded number of calls of the fetcher and of reset() that overlap in
\* every way, on an empty key, with the default ttl and a refresh after one
\* second
ConcOptions == [autoUpdateAfter |-> Num(1), ttl |-> Undefined]

ConcInit ==
    /\ store = NoEntry
    /\ clock = 0
    /\ ttl = OptionTtl(ConcOptions)
    /\ autoUpdateAfter = OptionAutoUpdateAfter(ConcOptions)
    /\ lastValue = NOT_INITIALIZED_YET
    /\ inv = [p \in Procs |-> IdleInv]
    /\ rst = IdleReset
    /\ hist = [InitHist EXCEPT !.options = ConcOptions]
    /\ ops = 0
    /\ db = [k \in Keys |-> NoEntry]
    /\ sets = [k \in Keys |-> NotSet]
    /\ op = NoOp
    /\ conn = "open"
    /\ pair = [f \in Fetchers |-> IdleFetcher]
    /\ kept = NoneKept

ConcStart(p) == ops < MaxOps /\ Start(p) /\ ops' = ops + 1
ConcResetStart == ops < MaxOps /\ ResetStart /\ ops' = ops + 1
ConcTick == clock < MaxConcClock /\ Tick

ConcNext ==
    \/ \E p \in Procs : ConcStart(p)
    \/ \E p \in Procs, ok \in BOOLEAN : CacheGet(p, ok)
    \/ \E p \in Procs : AfterGet(p)
    \/ \E p \in Procs, w \in ProducerValues : ProducerReturn(p, w)
    \/ \E p \in Procs, e \in ProducerErrors : ProducerThrow(p, e)
    \/ \E p \in Procs, ok \in BOOLEAN : CacheSet(p, ok)
    \/ \E p \in Procs : AfterSet(p)
    \/ ConcResetStart
    \/ \E ok \in BOOLEAN : CacheDel(ok)
    \/ ResetDone
    \/ ConcTick

ConcSpec == ConcInit /\ [][ConcNext]_vars

\* the operations of the fetcher do not overlap: each starts when none is in
\* flight (the store may still fail, the entry may expire or be flushed)
SeqStart == Quiet /\ Start(Main) /\ UNCHANGED ops
SeqResetStart == Quiet /\ ResetStart /\ UNCHANGED ops

SeqNext ==
    \/ SeqStart
    \/ \E ok \in BOOLEAN : CacheGet(Main, ok)
    \/ AfterGet(Main)
    \/ \E w \in ProducerValues : ProducerReturn(Main, w)
    \/ \E e \in ProducerErrors : ProducerThrow(Main, e)
    \/ \E ok \in BOOLEAN : CacheSet(Main, ok)
    \/ AfterSet(Main)
    \/ SeqResetStart
    \/ \E ok \in BOOLEAN : CacheDel(ok)
    \/ ResetDone
    \/ Tick
    \/ \E ok \in BOOLEAN : Flush(ok)

SeqSpec == Init /\ [][SeqNext]_vars

\* the same, for a key that only this fetcher writes, with a store that never
\* fails and entries that do not expire while they are watched; flush() may
\* still be called on the RedisCache
CleanInit == Init /\ store = NoEntry
CleanTick == Expire(store, clock + 1) = store /\ Tick

CleanNext ==
    \/ SeqStart
    \/ CacheGet(Main, TRUE)
    \/ AfterGet(Main)
    \/ \E w \in ProducerValues : ProducerReturn(Main, w)
    \/ \E e \in ProducerErrors : ProducerThrow(Main, e)
    \/ CacheSet(Main, TRUE)
    \/ AfterSet(Main)
    \/ SeqResetStart
    \/ CacheDel(TRUE)
    \/ ResetDone
    \/ CleanTick
    \/ Flush(TRUE)

CleanSpec == CleanInit /\ [][CleanNext]_vars

\* the same, with a caller that keeps the descriptor of a completed call
\* while it goes on using the fetcher
Keep(p) ==
    /\ inv[p].pc = "done"
    /\ ~kept.held
    /\ LET d == LocalsRead(inv[p].result.v, lastValue)
       IN kept' = [held |-> TRUE, d |-> inv[p].result.v,
                   errorToThrow |-> ResultErrorToThrow(d),
                   value |-> ResultValue(d),
                   valueStatus |-> ResultValueStatus(d),
                   lastValue |-> lastValue]
    /\ UNCHANGED <<db, sets, op, conn, pair>>
    /\ UNCHANGED <<store, clock, ttl, autoUpdateAfter, lastValue, inv, rst,
                 hist, ops>>

KeepNext == CleanNext \/ Keep(Main)

KeepSpec == CleanInit /\ [][KeepNext]_vars

(***************************************************************************)
(* A RedisCache used on its own: get, set and flush on a few keys          *)
(***************************************************************************)
fetcherVars == <<store, ttl, autoUpdateAfter, lastValue, inv, rst, hist, ops>>

CacheInit ==
    /\ db \in [Keys -> ForeignEntries]
    /\ sets = [k \in Keys |-> NotSet]
    /\ op = NoOp
    /\ conn = "open"
    /\ pair = [f \in Fetchers |-> IdleFetcher]
    /\ kept = NoneKept
    /\ clock = 0
    /\ store = NoEntry
    /\ ttl = OptionTtl(NoOptions)
    /\ autoUpdateAfter = OptionAutoUpdateAfter(NoOptions)
    /\ lastValue = NOT_INITIALIZED_YET
    /\ inv = [p \in Procs |-> IdleInv]
    /\ rst = IdleReset
    /\ hist = InitHist
    /\ ops = 0

\* await cache.get(k, d)
CacheGetCall(k, d, ok) ==
    /\ ok => conn = "open"
    /\ op' = [kind |-> "get", key |-> k, arg |-> d, ttl |-> Undefined,
              ok |-> ok, outcome |-> GetOutcome(ok, db[k], d),
              before |-> db[k]]
    /\ UNCHANGED <<db, sets, clock, conn, pair, kept>>
    /\ UNCHANGED fetcherVars

\* await cache.set(k, v, ttlArg)
CacheSetCall(k, v, ttlArg, ok) ==
    LET r == SetOutcome(ok, db[k], v, ttlArg, clock)
        performed == ok /\ (isNil(v) \/ ~StringifyThrows(v))
    IN  /\ ok => conn = "open"
        /\ db' = [db EXCEPT ![k] = r.entry]
        /\ sets' = [sets EXCEPT ![k] =
                      IF ~performed THEN @
                      ELSE IF isNil(v) THEN Deleted(db[k])
                      ELSE Written(v, EffectiveTtl(ttlArg), clock)]
        /\ op' = [kind |-> "set", key |-> k, arg |-> v, ttl |-> ttlArg,
                  ok |-> ok, outcome |-> r.outcome, before |-> db[k]]
        /\ UNCHANGED <<clock, conn, pair, kept>>
        /\ UNCHANGED fetcherVars

\* await cache.flush()
CacheFlushCall(ok) ==
    /\ ok => conn = "open"
    /\ db' = IF ok THEN [k \in Keys |-> NoEntry] ELSE db
    /\ sets' = IF ok THEN [k \in Keys |-> NotSet] ELSE sets
    /\ op' = [kind |-> "flush", key |-> "", arg |-> Undefined,
              ttl |-> Undefined, ok |-> ok, outcome |-> FlushOutcome(ok),
              before |-> NoEntry]
    /\ UNCHANGED <<clock, conn, pair, kept>>
    /\ UNCHANGED fetcherVars

\* await cache.close(), or with an argument as callers of earlier versions
\* pass it: the client is disconnected; on a closed client the command rejects
CacheCloseCall(arg, ok) ==
    /\ ok => conn = "open"
    /\ conn' = IF ok THEN "closed" ELSE conn
    /\ op' = [kind |-> "close", key |-> "", arg |-> arg, ttl |-> Undefined,
              ok |-> ok, outcome |-> CloseOutcome(ok), before |-> NoEntry,
              command |-> CloseCommand(arg)]
    /\ UNCHANGED <<db, sets, clock, pair, kept>>
    /\ UNCHANGED fetcherVars

\* a second passes; the store drops the entries that have expired
CacheTick ==
    /\ clock < MaxCacheClock
    /\ clock' = clock + 1
    /\ db' = [k \in Keys |-> Expire(db[k], clock + 1)]
    /\ op' = NoOp
    /\ UNCHANGED <<sets, conn, pair, kept>>
    /\ UNCHANGED fetcherVars

CacheNext ==
    \/ \E c \in GetCalls, ok \in BOOLEAN : CacheGetCall(c[1], c[2], ok)
    \/ \E c \in SetCalls, ok \in BOOLEAN : CacheSetCall(c[1], c[2], c[3], ok)
    \/ \E ok \in BOOLEAN : CacheFlushCall(ok)
    \/ \E arg \in CloseArgs, ok \in BOOLEAN : CacheCloseCall(arg, ok)
    \/ CacheTick

CacheSpec == CacheInit /\ [][CacheNext]_vars

(***************************************************************************)
(* Two fetchers on one RedisCache.  Each runs its operations one after     *)
(* the other; the steps of the two interleave freely.                      *)
(***************************************************************************)
\* variant: every fetcher works on the first key, whatever it was created with
KeyOf_Shared(f) == "k1"

\* the key the closure of fetcher f reads, writes and resets
KeyOf(f) == FetcherKeys[f]

PairInit ==
    /\ db = [k \in Keys |-> NoEntry]
    /\ sets = [k \in Keys |-> NotSet]
    /\ op = NoOp
    /\ conn = "open"
    /\ pair = [f \in Fetchers |-> IdleFetcher]
    /\ kept = NoneKept
    /\ clock = 0
    /\ store = NoEntry
    /\ ttl = OptionTtl(NoOptions)
    /\ autoUpdateAfter = OptionAutoUpdateAfter(NoOptions)
    /\ lastValue = NOT_INITIALIZED_YET
    /\ inv = [p \in Procs |-> IdleInv]
    /\ rst = IdleReset
    /\ hist = InitHist
    /\ ops = 0

PairIdle(f) == pair[f].pc \in {"idle", "done"}
PairFrame == UNCHANGED <<sets, op, conn, clock, kept>> /\ UNCHANGED fetcherVars

\* fetcher f is invoked: now is captured and the cache read is issued
PairStart(f) ==
    /\ PairIdle(f)
    /\ pair' = [pair EXCEPT ![f] =
                  [IdleFetcher EXCEPT !.pc = "get", !.kind = "fetch",
                                      !.now = clock * MsPerSecond,
                                      !.lastValue = pair[f].lastValue]]
    /\ UNCHANGED db
    /\ PairFrame

\* redis.get(key, NOT_FOUND) of fetcher f runs at the store
PairGet(f, ok) ==
    /\ pair[f].pc = "get"
    /\ pair' = [pair EXCEPT ![f].pc = "gotten",
                            ![f].cachedValue =
                                RedisCacheGet(ok, db[KeyOf(f)], NOT_FOUND)]
    /\ UNCHANGED db
    /\ PairFrame

\* fetch of f resumes after the read: adopts the cached value, then calls the
\* producer or completes
PairAfterGet(f) ==
    /\ pair[f].pc = "gotten"
    /\ pair' = [pair EXCEPT
                  ![f].lastValue = AdoptCached(pair[f].cachedValue,
                                               pair[f].lastValue),
                  ![f].pc = IF NeedsRefetch(pair[f].cachedValue, pair[f].now)
                            THEN "producer" ELSE "done"]
    /\ UNCHANGED db
    /\ PairFrame

\* the producer of f resolves with w
PairProducerReturn(f, w) ==
    /\ pair[f].pc = "producer"
    /\ pair' = [pair EXCEPT
                  ![f].pc = "set",
                  ![f].lastValue = w,
                  ![f].valueToCache =
                      ValueToCache(w, pair[f].now,
                                   OptionAutoUpdateAfter(PairOptions))]
    /\ UNCHANGED db
    /\ PairFrame

\* the producer of f throws: the catch block runs and fetch completes
PairProducerThrow(f) ==
    /\ pair[f].pc = "producer"
    /\ pair' = [pair EXCEPT ![f].pc = "done"]
    /\ UNCHANGED db
    /\ PairFrame

\* redis.set(key, valueToCache, ttl) of f runs at the store; fetch completes
\* whatever set returned
PairSet(f, ok) ==
    /\ pair[f].pc = "set"
    /\ db' = [db EXCEPT ![KeyOf(f)] =
                RedisCacheSet(ok, db[KeyOf(f)], pair[f].valueToCache,
                              OptionTtl(PairOptions), clock).entry]
    /\ pair' = [pair EXCEPT ![f].pc = "done"]
    /\ PairFrame

\* reset() of f is called: redis.set(key, null) is issued
PairResetStart(f) ==
    /\ PairIdle(f)
    /\ pair' = [pair EXCEPT ![f] =
                  [IdleFetcher EXCEPT !.pc = "del", !.kind = "reset",
                                      !.lastValue = pair[f].lastValue]]
    /\ UNCHANGED db
    /\ PairFrame

\* redis.set(key, null) of f runs at the store
PairDel(f, ok) ==
    /\ pair[f].pc = "del"
    /\ LET w == RedisCacheSet(ok, db[KeyOf(f)], Null, Num(DefaultTtl), clock)
       IN /\ db' = [db EXCEPT ![KeyOf(f)] = w.entry]
          /\ pair' = [pair EXCEPT ![f].pc = "deleted", ![f].removed = w.result]
    /\ PairFrame

\* reset() of f resumes after the deletion and returns
PairResetDone(f) ==
    /\ pair[f].pc = "deleted"
    /\ pair' = [pair EXCEPT
                  ![f].pc = "done",
                  ![f].lastValue = ResetLastValue(pair[f].removed,
                                                  pair[f].lastValue)]
    /\ UNCHANGED db
    /\ PairFrame

\* a second passes
PairTick ==
    /\ clock < MaxPairClock
    /\ clock' = clock + 1
    /\ db' = [k \in Keys |-> Expire(db[k], clock + 1)]
    /\ UNCHANGED <<sets, op, conn, pair, kept>>
    /\ UNCHANGED fetcherVars

PairNext ==
    \/ \E f \in Fetchers : PairStart(f)
    \/ \E f \in Fetchers, ok \in BOOLEAN : PairGet(f, ok)
    \/ \E f \in Fetchers : PairAfterGet(f)
    \/ \E f \in Fetchers, w \in ProducerValues : PairProducerReturn(f, w)
    \/ \E f \in Fetchers : PairProducerThrow(f)
    \/ \E f \in Fetchers, ok \in BOOLEAN : PairSet(f, ok)
    \/ \E f \in Fetchers : PairResetStart(f)
    \/ \E f \in Fetchers, ok \in BOOLEAN : PairDel(f, ok)
    \/ \E f \in Fetchers : PairResetDone(f)
    \/ PairTick

PairSpec == PairInit /\ [][PairNext]_vars

(***************************************************************************)
(* Notation for the properties                                             *)
(***************************************************************************)
Done(p) == inv[p].pc = "done"
\* the descriptor fetch returned, and what the plain call makes of it
Descriptor(p) == inv[p].result.v
PlainCall(p) == NewFetcher(Descriptor(p))
Returns(p, v) == PlainCall(p) = [k |-> "return", v |-> v]
Raises(p) == PlainCall(p).k = "raise"
\* the call read an envelope whose updateAfter is a number smaller than now
StaleHit(p) ==
    /\ IsCachedObject(inv[p].cachedValue)
    /\ Prop(inv[p].cachedValue, "updateAfter").t = "number"
    /\ Prop(inv[p].cachedValue, "updateAfter").n < inv[p].now
\* the call read an envelope whose updateAfter is null or not yet passed
FreshHit(p) ==
    /\ IsCachedObject(inv[p].cachedValue)
    /\ \/ Prop(inv[p].cachedValue, "updateAfter").t = "null"
       \/ /\ Prop(inv[p].cachedValue, "updateAfter").t = "number"
          /\ inv[p].now <= Prop(inv[p].cachedValue, "updateAfter").n
\* the value field of the envelope the call read
ReadValue(p) == Prop(inv[p].cachedValue, "value")
\* the store holds an envelope whose value field is v
StoreHolds(v) ==
    /\ store.present
    /\ store.text.j = "object"
    /\ Prop(JSONparse(store.text), "value") = v
\* the entry is as the call read it, unless a flush or an expiry removed it
EntryLeftAlone(p) ==
    /\ inv[p].setOk = "none"
    /\ ~inv[p].touched => store = inv[p].readEntry

(***************************************************************************)
(* Properties                                                              *)
(***************************************************************************)
\* C1 (SeqSpec): a call that started with lastValue uninitialized, found no
\* entry under the key and whose producer threw E raises the error
\* "No data available yet!" whose cause is E.
C1_ColdStartFailure ==
    \A p \in Procs :
        (/\ Done(p)
         /\ inv[p].startLast = NOT_INITIALIZED_YET
         /\ inv[p].readEntry = NoEntry
         /\ inv[p].producer = "throw")
        => PlainCall(p) = [k |-> "raise",
                           v |-> Error("No data available yet!", inv[p].produced)]

C1_Witness ==
    /\ Done(Main)
    /\ inv[Main].startLast = NOT_INITIALIZED_YET
    /\ inv[Main].readEntry = NoEntry
    /\ inv[Main].readOk
    /\ inv[Main].producer = "throw"
    /\ Raises(Main)

\* C2 (SeqSpec): once an invocation has succeeded and reset() has not been
\* called since, a later invocation whose producer throws does not raise: it
\* returns the value the fetcher held when the call started or the value of the
\* envelope the call read, and its valueStatus is Cached.
C2_DegradedRead ==
    \A p \in Procs :
        (Done(p) /\ inv[p].afterSuccess /\ inv[p].producer = "throw")
        => /\ PlainCall(p).k = "return"
           /\ PlainCall(p).v =
                 IF IsCachedObject(inv[p].cachedValue)
                 THEN ReadValue(p) ELSE inv[p].startLast
           /\ PlainCall(p).v # NOT_INITIALIZED_YET
           /\ ResultValueStatus(Descriptor(p)) = Cached

C2_Witness ==
    /\ Done(Main)
    /\ inv[Main].afterSuccess
    /\ inv[Main].producer = "throw"
    /\ inv[Main].cachedValue = NOT_FOUND
    /\ Returns(Main, inv[Main].startLast)

\* C3 (SeqSpec): a plain call raises only if the producer threw in that call
\* while lastValue was uninitialized; a failed cache read or cache write does
\* not make it raise.
C3_RaisesOnlyOnColdProducerFailure ==
    \A p \in Procs :
        (Done(p) /\ Raises(p))
        => /\ inv[p].producer = "throw"
           /\ inv[p].lastAtThrow = NOT_INITIALIZED_YET

C3_Witness ==
    /\ Done(Main)
    /\ ~inv[Main].readOk
    /\ inv[Main].setOk = "failed"
    /\ inv[Main].startLast = NOT_INITIALIZED_YET
    /\ Returns(Main, inv[Main].produced)

\* C4 (SeqSpec): whatever the cache held, whether the producer returned or
\* threw and whether the cache read and write succeeded, a completed fetch(...)
\* has returned a descriptor and not raised.
C4_FetchNeverRaises ==
    \A p \in Procs : Done(p) => inv[p].result.k = "return"

C4_Witness ==
    /\ Done(Main)
    /\ ~inv[Main].readOk
    /\ inv[Main].producer = "throw"
    /\ inv[Main].lastAtThrow = NOT_INITIALIZED_YET
    /\ inv[Main].result.k = "return"

\* C5 (SeqSpec): in every descriptor, errorToThrow is set only when valueStatus
\* is NoValueAvailable, and reading value raises exactly when valueStatus is
\* NoValueAvailable and yields the value otherwise.
C5_DescriptorConsistent ==
    \A p \in Procs :
        Done(p) =>
            LET d == Descriptor(p) IN
            /\ ResultErrorToThrow(d) # Undefined
                  => ResultValueStatus(d) = NoValueAvailable
            /\ ResultValue(d).k = "raise"
                  <=> ResultValueStatus(d) = NoValueAvailable
            /\ ResultValue(d).k = "return" => ResultValue(d).v = inv[p].value

C5_Witness ==
    /\ Done(Main)
    /\ ResultErrorToThrow(Descriptor(Main)) \in ProducerErrors
    /\ ResultValueStatus(Descriptor(Main)) = NoValueAvailable
    /\ ResultValue(Descriptor(Main)).k = "raise"

\* C6 (SeqSpec): when reset() has returned true the entry is gone and lastValue
\* is uninitialized, and the invocation that follows finds no entry, invokes
\* the producer and raises if the producer throws.
C6_ResetColdStart ==
    /\ (rst.pc = "done" /\ rst.returned)
          => (store = NoEntry /\ lastValue = NOT_INITIALIZED_YET)
    /\ \A p \in Procs :
          (inv[p].after = "ok" /\ inv[p].pc \notin {"idle", "get"})
          => /\ inv[p].startLast = NOT_INITIALIZED_YET
             /\ inv[p].cachedValue = NOT_FOUND
             /\ inv[p].pc # "gotten" => inv[p].producer # "no"
             /\ (Done(p) /\ inv[p].producer = "throw") => Raises(p)

C6_Witness ==
    /\ Done(Main)
    /\ inv[Main].after = "ok"
    /\ hist.ever
    /\ inv[Main].producer = "throw"
    /\ Raises(Main)

\* C7 (SeqSpec): reset() returns whether the store deleted the key; when the
\* deletion failed it returns false and lastValue is what it was, so that the
\* invocation that follows, if its producer throws, returns without raising
\* the value held before (lastValue, or the value of the envelope it read).
C7_ResetReportsDeletion ==
    /\ rst.pc = "done"
          => /\ rst.returned = rst.storeOk
             /\ ~rst.storeOk => rst.lastAfter = rst.lastBefore
             /\ ~rst.storeOk => lastValue = rst.lastBefore
    /\ \A p \in Procs :
          (/\ Done(p)
           /\ inv[p].after = "failed"
           /\ inv[p].startLast # NOT_INITIALIZED_YET
           /\ inv[p].producer = "throw")
          => Returns(p, IF IsCachedObject(inv[p].cachedValue)
                        THEN ReadValue(p) ELSE inv[p].startLast)

C7_Witness ==
    /\ Done(Main)
    /\ inv[Main].after = "failed"
    /\ inv[Main].startLast \in ProducerValues
    /\ inv[Main].producer = "throw"
    /\ inv[Main].cachedValue = NOT_FOUND
    /\ Returns(Main, inv[Main].startLast)

\* C8 as stated (SeqSpec): a call that read a stale envelope and whose producer
\* returned w returns w with valueStatus UpToDate, and the envelope stored
\* afterwards holds w.
C8_AsStated ==
    \A p \in Procs :
        (Done(p) /\ StaleHit(p) /\ inv[p].producer = "ok")
        => /\ Returns(p, inv[p].produced)
           /\ ResultValueStatus(Descriptor(p)) = UpToDate
           /\ ~inv[p].touched => StoreHolds(inv[p].produced)

\* C8 (SeqSpec), amended: a call that read a stale envelope invokes the
\* producer; if the producer returned w the call returns w with valueStatus
\* UpToDate and the envelope it writes holds w, and the envelope stored
\* afterwards holds w provided the cache write succeeded.
C8_AutoRefreshSuccess ==
    \A p \in Procs :
        /\ (StaleHit(p) /\ inv[p].pc \notin {"idle", "get", "gotten"})
              => inv[p].producer # "no"
        /\ (Done(p) /\ StaleHit(p) /\ inv[p].producer = "ok")
              => /\ Returns(p, inv[p].produced)
                 /\ ResultValueStatus(Descriptor(p)) = UpToDate
                 /\ Prop(inv[p].valueToCache, "value") = inv[p].produced
                 /\ (inv[p].setOk = "ok" /\ ~inv[p].touched)
                       => StoreHolds(inv[p].produced)

C8_Witness ==
    /\ Done(Main)
    /\ StaleHit(Main)
    /\ inv[Main].producer = "ok"
    /\ inv[Main].setOk = "ok"
    /\ inv[Main].produced # ReadValue(Main)
    /\ Returns(Main, inv[Main].produced)
    /\ StoreHolds(inv[Main].produced)

\* C9 (SeqSpec): a call that read a stale envelope and whose producer threw does
\* not raise, returns the value field of the envelope it read, and issues no
\* cache write: the entry is as the call read it.
C9_AutoRefreshFailure ==
    \A p \in Procs :
        (Done(p) /\ StaleHit(p) /\ inv[p].producer = "throw")
        => /\ Returns(p, ReadValue(p))
           /\ EntryLeftAlone(p)

C9_Witness ==
    /\ Done(Main)
    /\ StaleHit(Main)
    /\ inv[Main].producer = "throw"
    /\ inv[Main].startLast # ReadValue(Main)
    /\ Returns(Main, ReadValue(Main))
    /\ store = inv[Main].readEntry

\* C10 (SeqSpec): a call that read an envelope whose updateAfter is null, or a
\* number not smaller than now, does not invoke the producer, writes nothing
\* to the cache and returns the envelope's value with valueStatus Cached, also
\* when lastValue was uninitialized before.
C10_FreshHit ==
    \A p \in Procs :
        (FreshHit(p) /\ inv[p].pc \notin {"idle", "get", "gotten"})
        => /\ Done(p)
           /\ inv[p].producer = "no"
           /\ EntryLeftAlone(p)
           /\ Returns(p, ReadValue(p))
           /\ ResultValueStatus(Descriptor(p)) = Cached

C10_Witness ==
    /\ Done(Main)
    /\ FreshHit(Main)
    /\ inv[Main].startLast = NOT_INITIALIZED_YET
    /\ Prop(inv[Main].cachedValue, "updateAfter") = Num(inv[Main].now)
    /\ Returns(Main, ReadValue(Main))

C19_AsStated ==
    (hist.fresh /\ lastValue \in ProducerValues) => lastValue = hist.latest

\* C20 (SeqSpec): the valueStatus of a descriptor is UpToDate exactly when the
\* producer was invoked in that call and returned; it is NoValueAvailable
\* exactly when lastValue is uninitialized at the end of the call, as after a
\* first call that failed on a cold cache.
C20_ValueStatus ==
    \A p \in Procs :
        Done(p) =>
            LET st == ResultValueStatus(Descriptor(p)) IN
            /\ st = UpToDate <=> inv[p].producer = "ok"
            /\ st = NoValueAvailable <=> lastValue = NOT_INITIALIZED_YET
            /\ (/\ inv[p].startLast = NOT_INITIALIZED_YET
                /\ inv[p].cachedValue = NOT_FOUND
                /\ inv[p].producer = "throw") => st = NoValueAvailable

C20_Witness ==
    /\ Done(Main)
    /\ inv[Main].startLast = NOT_INITIALIZED_YET
    /\ inv[Main].cachedValue = NOT_FOUND
    /\ inv[Main].producer = "throw"
    /\ lastValue = NOT_INITIALIZED_YET
    /\ ResultValueStatus(Descriptor(Main)) = NoValueAvailable

(***************************************************************************)
(* Properties of a RedisCache used on its own                              *)
(***************************************************************************)
\* JSON.parse(JSON.stringify(v)) gives v back
RoundTrips(v) == ~StringifyThrows(v) /\ JSONparse(JSONstringify(v)) = v
\* a value was set under k, k was not set, deleted or flushed since, and the
\* ttl of that set has not run out
Live(k) ==
    /\ sets[k].st = "set"
    /\ sets[k].ttl.t = "number" => clock < sets[k].at + sets[k].ttl.n

\* C12 as stated (CacheSpec): after a successful set(k, v) of a value v that
\* round-trips through JSON, a get(k) before expiry, with no write to k or
\* flush in between, returns v.
C12_AsStated ==
    (op.kind = "get" /\ Live(op.key) /\ RoundTrips(sets[op.key].value))
    => op.outcome = Returned(sets[op.key].value)

\* C12 (CacheSpec): after a successful set(k, v) of a value v that round-trips
\* through JSON, a get(k) before expiry whose read the store answers, with no
\* write to k or flush in between, returns v.
C12_RoundTrip ==
    (op.kind = "get" /\ op.ok /\ Live(op.key) /\ RoundTrips(sets[op.key].value))
    => op.outcome = Returned(sets[op.key].value)

C12_Witness ==
    /\ op.kind = "get"
    /\ op.ok
    /\ Live(op.key)
    /\ RoundTrips(sets[op.key].value)
    /\ clock > sets[op.key].at
    /\ op.arg # sets[op.key].value
    /\ op.outcome = Returned(sets[op.key].value)

\* C13 (CacheSpec): set(k, null) and set(k, undefined) return true when the
\* store accepts the deletion and k is then absent; a later get(k, d), with
\* no set of k in between, returns d, whatever k held.
C13_NilDeletes ==
    /\ (op.kind = "set" /\ isNil(op.arg))
          => /\ op.outcome = Returned(IF op.ok THEN True ELSE False)
             /\ op.ok => db[op.key] = NoEntry
    /\ (op.kind = "get" /\ sets[op.key].st = "deleted")
          => op.outcome = Returned(op.arg)

C13_Witness ==
    /\ op.kind = "get"
    /\ op.ok
    /\ sets[op.key].st = "deleted"
    /\ sets[op.key].held.present
    /\ ~ParseThrows(sets[op.key].held.text)
    /\ op.arg = Num(9)
    /\ op.outcome = Returned(Num(9))

\* C14 (CacheSpec): get(k, d) never raises and leaves the entry as it was; it
\* returns d when the store read fails, when k is absent and when the stored
\* string is not JSON, and the parsed stored value otherwise.
C14_GetNeverRaises ==
    op.kind = "get" =>
        /\ op.outcome.k = "return"
        /\ db[op.key] = op.before
        /\ op.outcome.v =
              IF ~op.ok \/ ~op.before.present \/ ParseThrows(op.before.text)
              THEN op.arg ELSE JSONparse(op.before.text)

C14_Witness ==
    /\ op.kind = "get"
    /\ op.ok
    /\ op.before.present
    /\ ParseThrows(op.before.text)
    /\ op.arg = Num(9)
    /\ op.outcome = Returned(Num(9))

\* C15 (CacheSpec): set(k, v, ttl) never raises and returns a boolean: true
\* exactly when the store accepted the write (the deletion for a nil v), and
\* then the entry is the text of v (absent for a nil v); false when
\* JSON.stringify failed or the store refused, and then the entry is as it was.
C15_SetReturnsBoolean ==
    op.kind = "set" =>
        LET fails == ~isNil(op.arg) /\ StringifyThrows(op.arg) IN
        /\ op.outcome \in {Returned(True), Returned(False)}
        /\ op.outcome = Returned(True) <=> (~fails /\ op.ok)
        /\ op.outcome = Returned(False) => db[op.key] = op.before
        /\ (op.outcome = Returned(True) /\ ~isNil(op.arg))
              => /\ db[op.key].present
                 /\ db[op.key].text = JSONstringify(op.arg)

C15_Witness ==
    /\ op.kind = "set"
    /\ op.arg = Circular
    /\ op.ok
    /\ op.before.present
    /\ op.outcome = Returned(False)
    /\ db[op.key] = op.before

\* what get returns for the entry written by set(k, v)
Stored(v) == JSONparse(JSONstringify(v))

\* C16 as stated (CacheSpec): an entry written with ttl false has no expiry;
\* one written with a number n is returned by get before n seconds have
\* passed and is absent after more than n seconds; an omitted ttl is 3600.
C16_AsStated ==
    /\ (op.kind = "get" /\ sets[op.key].st = "set")
          => LET w == sets[op.key] IN
             /\ (w.ttl.t = "boolean" \/ clock < w.at + w.ttl.n)
                   => op.outcome = Returned(Stored(w.value))
             /\ (w.ttl.t = "number" /\ clock > w.at + w.ttl.n)
                   => op.outcome = Returned(op.arg)
    /\ (op.kind = "set" /\ ~isNil(op.arg) /\ op.outcome = Returned(True))
          => /\ op.ttl = False => ~db[op.key].expires
             /\ op.ttl = Undefined
                   => /\ db[op.key].expires
                      /\ db[op.key].expireAt = clock + DefaultTtl

\* C16 (CacheSpec): an entry written with ttl false has no expiry; one written
\* with a number n is returned by a get whose read the store answers before n
\* seconds have passed, and is absent after more than n seconds; an omitted
\* ttl is 3600.
C16_Ttl ==
    /\ (op.kind = "get" /\ sets[op.key].st = "set")
          => LET w == sets[op.key] IN
             /\ (op.ok /\ (w.ttl.t = "boolean" \/ clock < w.at + w.ttl.n))
                   => op.outcome = Returned(Stored(w.value))
             /\ (w.ttl.t = "number" /\ clock > w.at + w.ttl.n)
                   => op.outcome = Returned(op.arg)
    /\ (op.kind = "set" /\ ~isNil(op.arg) /\ op.outcome = Returned(True))
          => /\ op.ttl = False => ~db[op.key].expires
             /\ op.ttl = Undefined
                   => /\ db[op.key].expires
                      /\ db[op.key].expireAt = clock + DefaultTtl

C16_Witness ==
    /\ op.kind = "get"
    /\ op.ok
    /\ sets[op.key].st = "set"
    /\ sets[op.key].ttl = Num(1)
    /\ clock > sets[op.key].at + 1
    /\ op.arg = Num(9)
    /\ op.outcome = Returned(Num(9))

\* C17 as stated (CacheSpec): flush() never raises; when the store accepts it
\* every key is removed and flush returns the boolean true; when the store
\* refuses it flush returns the boolean false.
C17_AsStated ==
    op.kind = "flush" =>
        /\ op.outcome.k = "return"
        /\ op.ok => /\ \A k \in Keys : db[k] = NoEntry
                    /\ op.outcome = Returned(True)
        /\ ~op.ok => op.outcome = Returned(False)

(***************************************************************************)
(* Properties of overlapping calls                                         *)
(***************************************************************************)
\* the text of the envelope an invocation builds from the value its producer
\* returned and its own now
EnvelopeOf(w) == JSONstringify(ValueToCache(w.value, w.now, autoUpdateAfter))

\* C18 (ConcSpec): however the invocations and reset() overlap, the entry
\* under the key is absent or is the envelope one invocation built from the
\* value its producer returned and its own now; it never holds the value of
\* one write with the updateAfter of another.
C18_EnvelopeIntegrity ==
    \/ store = NoEntry
    \/ /\ store.present
       /\ hist.written.set
       /\ store.text = EnvelopeOf(hist.written)

C18_Witness ==
    /\ inv["a"].pc = "written"
    /\ inv["a"].setOk = "ok"
    /\ inv["b"].setOk = "ok"
    /\ inv["a"].now < inv["b"].now
    /\ inv["a"].produced # inv["b"].produced
    /\ hist.written = WriteOf(inv["a"])
    /\ store.present
    /\ store.text = EnvelopeOf(WriteOf(inv["a"]))

(***************************************************************************)
(* Properties of calls that do not overlap, continued                      *)
(***************************************************************************)
\* the value a call has to offer when its producer did not return: the value
\* of the envelope it read, or else lastValue as it was when the call started
ValueWithoutProducer(p) ==
    IF IsCachedObject(inv[p].cachedValue) THEN ReadValue(p)
    ELSE inv[p].startLast

\* C21 as stated (SeqSpec): a descriptor whose valueStatus is Cached belongs
\* to a call that hit the cache and did not invoke the producer.
C21_AsStated ==
    \A p \in Procs :
        (Done(p) /\ ResultValueStatus(Descriptor(p)) = Cached)
        => /\ IsCachedObject(inv[p].cachedValue)
           /\ inv[p].producer = "no"

\* C21 (SeqSpec): a descriptor whose valueStatus is Cached belongs to a call
\* in which the producer did not return a value (it was not invoked, or it
\* threw); the value returned is the value of the envelope the call read, or,
\* on a miss, the last good value from before the call.
C21_CachedStatus ==
    \A p \in Procs :
        (Done(p) /\ ResultValueStatus(Descriptor(p)) = Cached)
        => /\ inv[p].producer # "ok"
           /\ Returns(p, ValueWithoutProducer(p))
           /\ ~IsCachedObject(inv[p].cachedValue)
                 => /\ inv[p].producer = "throw"
                    /\ inv[p].startLast # NOT_INITIALIZED_YET

C21_Witness ==
    /\ Done(Main)
    /\ ResultValueStatus(Descriptor(Main)) = Cached
    /\ inv[Main].producer = "throw"
    /\ inv[Main].cachedValue = NOT_FOUND
    /\ inv[Main].startLast \in ProducerValues
    /\ Returns(Main, inv[Main].startLast)

\* the cache write of call p was applied, and no flush or expiry came after it
WriteStands(p) ==
    /\ inv[p].pc \in {"written", "done"}
    /\ inv[p].setOk = "ok"
    /\ ~inv[p].touched
\* the text of the envelope holding the number w and no refresh time
NeverRefreshed(w) == JObj([updateAfter |-> JNull, value |-> JNum(w.n)])

\* C25 (SeqSpec): a fetcher created without a ttl writes its envelopes without
\* expiry, one created without autoUpdateAfter writes updateAfter = now +
\* 3600 * 1000; one created with autoUpdateAfter null writes updateAfter null,
\* and a later call that reads such an envelope does not invoke the producer.
C25_OptionDefaults ==
    \A p \in Procs :
        /\ (WriteStands(p) /\ hist.options.ttl = Undefined)
              => store.present /\ ~store.expires
        /\ (WriteStands(p) /\ hist.options.autoUpdateAfter = Undefined)
              => /\ store.present
                 /\ store.text =
                       JObj([updateAfter |-> JNum(inv[p].now + 3600 * 1000),
                             value |-> JNum(inv[p].produced.n)])
        /\ (WriteStands(p) /\ hist.options.autoUpdateAfter = Null)
              => /\ store.present
                 /\ store.text = NeverRefreshed(inv[p].produced)
        /\ (/\ Done(p)
            /\ hist.options.autoUpdateAfter = Null
            /\ inv[p].readOk
            /\ inv[p].readEntry.present
            /\ \E w \in ProducerValues :
                  inv[p].readEntry.text = NeverRefreshed(w))
              => /\ inv[p].producer = "no"
                 /\ Returns(p, ReadValue(p))

C25_Witness ==
    /\ Done(Main)
    /\ hist.options = [autoUpdateAfter |-> Null, ttl |-> Undefined]
    /\ inv[Main].readOk
    /\ inv[Main].readEntry = Entry(NeverRefreshed(Num(1)), FALSE, 0)
    /\ inv[Main].now = MaxClock * MsPerSecond
    /\ inv[Main].producer = "no"
    /\ Returns(Main, Num(1))

\* the entry parses as JSON but is not an object with a value member
NotAnEnvelope(e) ==
    /\ e.present
    /\ ~ParseThrows(e.text)
    /\ e.text.j = "object" => "value" \notin DOMAIN e.text.members

\* C26 as stated (SeqSpec): a call that read an entry which parses as JSON
\* but is not an object with a value member invokes the producer and adopts
\* nothing from that entry as lastValue.
C26_AsStated ==
    \A p \in Procs :
        (/\ inv[p].pc \notin {"idle", "get", "gotten"}
         /\ inv[p].readOk
         /\ NotAnEnvelope(inv[p].readEntry))
        => /\ inv[p].producer # "no"
           /\ inv[p].producer = "throw" => inv[p].lastAtThrow = inv[p].startLast

\* C27 (SeqSpec): the envelope a call builds once its producer returned has
\* updateAfter = now + seconds * 1000, now being the time the call captured
\* when it started and seconds the autoUpdateAfter option (3600 when
\* omitted), or null when the option is null; it is written with the ttl the
\* fetcher was created with: without expiry when there is none, else expiring
\* ttl seconds after the write.
C27_RefreshAfter ==
    \A p \in Procs :
        (inv[p].pc \in {"set", "written", "done"} /\ inv[p].producer = "ok")
        => LET sec == hist.options.autoUpdateAfter
               expected ==
                   IF sec.t = "null" THEN Null
                   ELSE Num(inv[p].now
                            + (IF sec.t = "undefined" THEN 3600 ELSE sec.n) * 1000)
           IN /\ inv[p].valueToCache =
                    Obj([updateAfter |-> expected, value |-> inv[p].produced])
              /\ inv[p].now <= clock * MsPerSecond
              /\ WriteStands(p)
                    => /\ store.present
                       /\ store.text = JSONstringify(inv[p].valueToCache)
                       /\ store.expires <=> hist.options.ttl.t = "number"
                       /\ store.expires
                             => \E t \in (inv[p].now \div MsPerSecond)..clock :
                                   store.expireAt = t + hist.options.ttl.n

C27_Witness ==
    /\ inv[Main].pc = "written"
    /\ inv[Main].producer = "ok"
    /\ inv[Main].setOk = "ok"
    /\ hist.options = [autoUpdateAfter |-> Num(1), ttl |-> Num(2)]
    /\ inv[Main].now = MsPerSecond
    /\ clock = 2
    /\ store.present
    /\ store.expires
    /\ store.expireAt = 4
    /\ store.text = JObj([updateAfter |-> JNum(2 * MsPerSecond),
                          value |-> JNum(inv[Main].produced.n)])

\* C28 (SeqSpec): when the producer throws, the refresh leaves lastValue as it
\* was before it (the value adopted from the envelope read, or else what it
\* was when the call started) and issues no cache write: the entry is as the
\* call read it.
C28_ProducerFailureFrame ==
    \A p \in Procs :
        (Done(p) /\ inv[p].producer = "throw")
        => /\ inv[p].setOk = "none"
           /\ lastValue = inv[p].lastAtThrow
           /\ inv[p].lastAtThrow = ValueWithoutProducer(p)
           /\ ~inv[p].touched => store = inv[p].readEntry

C28_Witness ==
    /\ Done(Main)
    /\ inv[Main].producer = "throw"
    /\ ~inv[Main].readOk
    /\ inv[Main].startLast \in ProducerValues
    /\ lastValue = inv[Main].startLast
    /\ store.present
    /\ store = inv[Main].readEntry

\* the cache read of call p failed at the store, or found a string that is
\* not JSON
Unreadable(p) ==
    \/ ~inv[p].readOk
    \/ inv[p].readEntry.present /\ ParseThrows(inv[p].readEntry.text)

C24_AsStated ==
    op.kind = "close"
    => op.command = IF op.arg = Undefined THEN "quit" ELSE "disconnect"

\* C24 (CacheSpec): close() has one mode: with or without an argument it
\* sends the client's immediate disconnect; it returns true when that
\* succeeded, and the connection is then closed, false otherwise; the entries
\* in the store stay.
C24_CloseDisconnects ==
    op.kind = "close"
    => /\ op.command = "disconnect"
       /\ op.outcome = Returned(IF op.ok THEN True ELSE False)
       /\ op.ok => conn = "closed"

C24_Witness ==
    /\ op.kind = "close"
    /\ op.arg = Undefined
    /\ op.ok
    /\ op.command = "disconnect"
    /\ conn = "closed"
    /\ sets["k1"].st = "set"
    /\ db["k1"].present

\* C30 (CacheSpec): the entry after a successful set(k, v, ttl) depends on v,
\* ttl and the time of the call only, not on what k held: a second set of the
\* same value leaves the same text, the expiry is counted from the latest
\* write, and a rewrite with ttl false leaves no expiry.
C30_SetIdempotent ==
    (op.kind = "set" /\ ~isNil(op.arg) /\ op.outcome = Returned(True))
    => LET t == IF op.ttl = Undefined THEN Num(3600) ELSE op.ttl IN
       db[op.key] = IF t = False
                    THEN Entry(JSONstringify(op.arg), FALSE, 0)
                    ELSE Entry(JSONstringify(op.arg), TRUE, clock + t.n)

C30_Witness ==
    /\ op.kind = "set"
    /\ op.outcome = Returned(True)
    /\ op.before.present
    /\ op.before.expires
    /\ op.before.text = JSONstringify(op.arg)
    /\ db[op.key].text = op.before.text
    /\ db[op.key].expires
    /\ db[op.key].expireAt > op.before.expireAt

(***************************************************************************)
(* Properties of calls that overlap, continued                             *)
(***************************************************************************)
\* the call read the key and found nothing
ObservedMiss(p) ==
    /\ inv[p].pc \in {"producer", "set", "written", "done"}
    /\ inv[p].readOk
    /\ inv[p].cachedValue = NOT_FOUND

\* C22 (ConcSpec): there is no single flight: every call that observed a
\* miss invokes the producer, whether or not another call is refreshing; when
\* two calls that both observed a miss have completed with their writes
\* acknowledged and nothing was removed, the entry is the envelope of the call
\* whose write reached the store last.
C22_NoSingleFlight ==
    /\ \A p \in Procs : ObservedMiss(p) => inv[p].producer # "no"
    /\ (/\ \A p \in Procs : Done(p) /\ ObservedMiss(p) /\ WriteStands(p)
        /\ rst.pc = "idle")
       => /\ store.present
          /\ store.text = EnvelopeOf(hist.written)
          /\ \E p \in Procs : hist.written = WriteOf(inv[p])

C22_Witness ==
    /\ \A p \in Procs :
         /\ Done(p)
         /\ ObservedMiss(p)
         /\ inv[p].readEntry = NoEntry
         /\ inv[p].startLast = NOT_INITIALIZED_YET
         /\ inv[p].producer = "ok"
         /\ WriteStands(p)
    /\ inv["a"].produced # inv["b"].produced
    /\ hist.written = WriteOf(inv["b"])
    /\ store.text = EnvelopeOf(WriteOf(inv["b"]))
    /\ store.text # EnvelopeOf(WriteOf(inv["a"]))

(***************************************************************************)
(* Properties of two fetchers on one RedisCache                            *)
(***************************************************************************)
\* fetcher f takes a step of an invocation or of reset()
FetcherStep(f) == pair'[f] # pair[f]
\* the entry under the key g was created with and the lastValue of g are as
\* they were
Untouched(g) ==
    /\ db'[FetcherKeys[g]] = db[FetcherKeys[g]]
    /\ pair'[g].lastValue = pair[g].lastValue

\* C23 (PairSpec): two fetchers created on the same cache with distinct keys
\* are isolated: no step of an invocation or a reset() of one changes the
\* entry under the other's key or the other's lastValue.
C23_FetcherIsolation ==
    [][\A f \in Fetchers : \A g \in Fetchers \ {f} :
          FetcherStep(f) => Untouched(g)]_vars

C23_Witness ==
    /\ pair["fA"].kind = "reset"
    /\ pair["fA"].pc = "done"
    /\ pair["fA"].removed
    /\ pair["fA"].lastValue = NOT_INITIALIZED_YET
    /\ ~db["k1"].present
    /\ pair["fB"].pc = "done"
    /\ pair["fB"].lastValue \in ProducerValues
    /\ db["k2"].present
    /\ Prop(JSONparse(db["k2"].text), "value") = pair["fB"].lastValue

(***************************************************************************)
(* Properties of calls that do not overlap, third part                     *)
(***************************************************************************)
\* C31 (SeqSpec): a call that does not raise returns lastValue as it is when
\* the call ends, and that value is initialized, in each of its three cases:
\* the producer threw and lastValue was there before, the producer returned
\* (lastValue is what it returned), or the producer was not invoked (lastValue
\* is the value of the envelope read).
C31_ReturnsLastValue ==
    \A p \in Procs :
        (Done(p) /\ ~Raises(p))
        => /\ Returns(p, lastValue)
           /\ lastValue # NOT_INITIALIZED_YET
           /\ inv[p].producer = "throw" => lastValue = inv[p].lastAtThrow
           /\ inv[p].producer = "ok" => lastValue = inv[p].produced
           /\ inv[p].producer = "no"
                 => /\ IsCachedObject(inv[p].cachedValue)
                    /\ lastValue = Prop(inv[p].cachedValue, "value")

C31_Witness ==
    /\ Done(Main)
    /\ ~Raises(Main)
    /\ inv[Main].producer = "throw"
    /\ inv[Main].cachedValue = NOT_FOUND
    /\ inv[Main].startLast \in ProducerValues
    /\ Returns(Main, lastValue)
    /\ lastValue = inv[Main].startLast

\* C32 (SeqSpec): lastValue is the value the producer returned from the moment
\* it returned, before the cache write; when that write fails the call still
\* returns the value with valueStatus UpToDate, lastValue stays the value, and
\* the entry is as the call read it.
C32_WriteFailure ==
    \A p \in Procs :
        /\ inv[p].pc \in {"set", "written"} => lastValue = inv[p].produced
        /\ (Done(p) /\ inv[p].producer = "ok" /\ inv[p].setOk = "failed")
           => /\ Returns(p, inv[p].produced)
              /\ ResultValueStatus(Descriptor(p)) = UpToDate
              /\ ResultErrorToThrow(Descriptor(p)) = Undefined
              /\ lastValue = inv[p].produced
              /\ ~inv[p].touched => store = inv[p].readEntry

C32_Witness ==
    /\ Done(Main)
    /\ StaleHit(Main)
    /\ inv[Main].producer = "ok"
    /\ inv[Main].setOk = "failed"
    /\ inv[Main].produced # Prop(inv[Main].cachedValue, "value")
    /\ Returns(Main, inv[Main].produced)
    /\ lastValue = inv[Main].produced
    /\ store.present
    /\ store = inv[Main].readEntry

(***************************************************************************)
(* Properties of calls that overlap with reset()                           *)
(***************************************************************************)
\* the call obtained a value: it read an envelope, or its producer returned
Obtained(p) ==
    \/ IsCachedObject(inv[p].cachedValue)
    \/ inv[p].producer = "ok"

\* C33 as stated (ConcSpec): a call that obtained a value never raises and
\* never reports NoValueAvailable, however reset() overlaps with it.
C33_AsStated ==
    \A p \in Procs :
        (Done(p) /\ Obtained(p))
        => /\ ~Raises(p)
           /\ ResultValueStatus(Descriptor(p)) # NoValueAvailable

\* C33 (ConcSpec): a call that obtained a value neither raises nor reports
\* NoValueAvailable unless a reset() returned true after the call last
\* assigned lastValue and before it ended; when it raises, lastValue was
\* uninitialized at its end and the error is "No data available yet!".
C33_ValueObtained ==
    \A p \in Procs :
        (Done(p) /\ Obtained(p))
        => /\ ~inv[p].cleared
                 => /\ ~Raises(p)
                    /\ ResultValueStatus(Descriptor(p)) # NoValueAvailable
           /\ (Raises(p) \/ ResultValueStatus(Descriptor(p)) = NoValueAvailable)
                 => /\ inv[p].cleared
                    /\ inv[p].value = NOT_INITIALIZED_YET
                    /\ ResultErrorToThrow(Descriptor(p)) =
                          (IF inv[p].producer = "throw" THEN inv[p].produced
                           ELSE Undefined)
                    /\ PlainCall(p).v =
                          Error("No data available yet!",
                                ResultErrorToThrow(Descriptor(p)))

C33_Witness ==
    /\ Done("a")
    /\ inv["a"].producer = "ok"
    /\ inv["a"].cleared
    /\ Raises("a")
    /\ ResultValueStatus(Descriptor("a")) = NoValueAvailable
    /\ rst.pc = "done"
    /\ rst.returned

\* C34 as stated (ConcSpec): once reset() has returned true, and as long as
\* no call has started since, the entry is absent and lastValue is
\* uninitialized, whatever the calls that were in flight do.
C34_AsStated ==
    (rst.pc = "done" /\ rst.returned)
    => /\ store = NoEntry
       /\ lastValue = NOT_INITIALIZED_YET

\* C34 (ConcSpec): once reset() has returned true, and as long as no call has
\* started since, lastValue is uninitialized unless a call that was in flight
\* has assigned it since reset() returned, and the entry is absent unless the
\* cache write of such a call was accepted after the deletion.
C34_ResetAndCallsInFlight ==
    (rst.pc = "done" /\ rst.returned)
    => /\ ~rst.assigned => lastValue = NOT_INITIALIZED_YET
       /\ ~rst.written => store = NoEntry
       /\ rst.assigned => lastValue # NOT_INITIALIZED_YET
       /\ rst.written => store.present /\ hist.written.set

C34_Witness ==
    /\ rst.pc = "done"
    /\ rst.returned
    /\ rst.assigned
    /\ rst.written
    /\ inv["a"].pc = "done"
    /\ inv["a"].producer = "ok"
    /\ lastValue = inv["a"].produced
    /\ store.present
    /\ store.text = EnvelopeOf(WriteOf(inv["a"]))

(***************************************************************************)
(* Properties of calls that do not overlap, fourth part                    *)
(***************************************************************************)
\* the entry disappears in this step, and not by the deletion of reset()
EntryLost == store.present /\ ~store'.present /\ rst' = rst
\* call p completes in this step, having found no entry under the key while
\* lastValue was initialized
CompletesAfterLoss(p) ==
    /\ ~Done(p)
    /\ Done(p)'
    /\ inv[p].readOk
    /\ inv[p].readEntry = NoEntry
    /\ inv[p].startLast # NOT_INITIALIZED_YET

\* C35 (SeqSpec): a step in which the entry disappears by flush() or by expiry
\* leaves lastValue as it is; lastValue becomes uninitialized only in the step
\* in which reset() returns true; a call that finds the entry gone while
\* lastValue is initialized invokes the producer and, when the producer
\* throws, returns the old value without raising.
C35_EntryLossKeepsValue ==
    [][/\ EntryLost => lastValue' = lastValue
       /\ (lastValue # NOT_INITIALIZED_YET /\ lastValue' = NOT_INITIALIZED_YET)
             => (rst.pc = "deleted" /\ rst'.pc = "done" /\ rst'.returned)
       /\ \A p \in Procs :
             CompletesAfterLoss(p)
             => /\ inv'[p].producer # "no"
                /\ inv'[p].producer = "throw"
                      => /\ Returns(p, inv[p].startLast)'
                         /\ ResultValueStatus(Descriptor(p))' = Cached
                         /\ lastValue' = inv[p].startLast]_vars

C35_Witness ==
    /\ Done(Main)
    /\ inv[Main].after = "none"
    /\ inv[Main].afterSuccess
    /\ inv[Main].readOk
    /\ inv[Main].readEntry = NoEntry
    /\ inv[Main].startLast \in ProducerValues
    /\ inv[Main].producer = "throw"
    /\ Returns(Main, inv[Main].startLast)
    /\ ~store.present
    /\ hist.written = LostWrite

\* a step of reset(): it is called, its deletion runs, or it returns
ResetStep == rst'.pc # rst.pc /\ rst'.pc \in {"del", "deleted", "done"}

\* C36 (SeqSpec): a call invokes the producer at most once and issues at most
\* one cache write, and none without the producer having returned; a failed
\* write or a producer that threw is not tried again; no step of reset()
\* invokes the producer or issues a call's cache write.
C36_OneProducerCall ==
    [][/\ \A p \in Procs :
             /\ inv'[p].calls <= 1
             /\ inv'[p].writes <= inv'[p].calls
             /\ inv'[p].producer = "throw" => inv'[p].writes = 0
             /\ Done(p)' => inv'[p].calls = (IF inv'[p].producer = "no" THEN 0 ELSE 1)
       /\ ResetStep => \A p \in Procs : /\ inv'[p].calls <= inv[p].calls
                                        /\ inv'[p].writes <= inv[p].writes]_vars

C36_Witness ==
    /\ Done(Main)
    /\ inv[Main].producer = "ok"
    /\ inv[Main].setOk = "failed"
    /\ inv[Main].calls = 1
    /\ inv[Main].writes = 1

(***************************************************************************)
(* Properties of calls that do not overlap on a store that never fails     *)
(***************************************************************************)
\* the last operation of the fetcher has completed and nothing has started
\* since
AtRest == Done(Main) \/ rst.pc = "done"
\* the entry is absent and lastValue uninitialized, or the entry is an
\* envelope whose value is lastValue
Agree ==
    \/ store = NoEntry /\ lastValue = NOT_INITIALIZED_YET
    \/ StoreHolds(lastValue)

\* C37 as stated (CleanSpec): after every completed call or reset(), as long
\* as nothing has removed the entry since the operation started, the entry
\* and lastValue agree.
C37_AsStated ==
    (AtRest /\ (Done(Main) => ~inv[Main].touched)) => Agree

\* C37 (CleanSpec): after every completed call or reset() the entry and
\* lastValue agree, unless flush() has removed the entry and neither a cache
\* write nor a reset() has followed.
C37_AgreeAtRest ==
    (AtRest /\ hist.written # LostWrite) => Agree

C37_Witness ==
    /\ Done(Main)
    /\ StaleHit(Main)
    /\ inv[Main].producer = "ok"
    /\ inv[Main].setOk = "ok"
    /\ inv[Main].startLast \in ProducerValues
    /\ lastValue # inv[Main].startLast
    /\ hist.written = WriteOf(inv[Main])
    /\ StoreHolds(lastValue)

(***************************************************************************)
(* Properties of a descriptor the caller keeps                             *)
(***************************************************************************)
\* what the getters of the kept descriptor report now
KeptNow == LocalsRead(kept.d, lastValue)

====
